---- MODULE Spec2Model ----
(***************************************************************************)
(* Resource-aggregation pipeline of the RabbitHole server                  *)
(* (server/routes.ts, server/storage.ts, server/services/openai.ts).       *)
(*                                                                         *)
(* Strings are sequences of tokens; a token is a whitespace character      *)
(* (" ", "\n") or a word without whitespace, so two strings are equal      *)
(* exactly when their token sequences are (the fixed text around the query *)
(* in a fallback title or snippet is one token each).  Template literals   *)
(* are concatenations.  A query is any string z.string().min(1) accepts:   *)
(* it may hold the character U+0000 (token Nul) or a surrogate code unit   *)
(* without its pair (token LoneSurrogate), on which spawn and              *)
(* encodeURIComponent throw.                                               *)
(***************************************************************************)
EXTENDS Integers, Sequences, FiniteSets, TLC

VARIABLES
    call,           \* SpecFetch: the one fetchResourcesFromSource call observed
    calls,          \* SpecCalls: the fetchResourcesFromSource calls of one server, in start order
    searchHistory,  \* MemStorage.searchHistory, oldest first
    learningPlans,  \* MemStorage.learningPlans, in creation order (id = index)
    resources,      \* MemStorage.resources, in insertion order (id = index)
    passes,         \* fetchResourcesForPlan invocations (background tasks)
    reads,          \* GET /api/resources/:planId handler invocations
    posts,          \* POST /api/search/generate handler invocations
    writes,         \* per stored record: which pass wrote it, and from what
    realUsed,       \* lookups so far that ended otherwise than in a failure (up to MaxReal)
    world,          \* what the external sources hold
    synth,          \* SpecQueries: one run of the Query Synthesizer and Optimizer
    fallbackCalls   \* SpecFallback: the generateFallbackResults calls made, in order

vars == <<call, calls, searchHistory, learningPlans, resources, passes, reads, posts, writes, realUsed, world,
         synth, fallbackCalls>>

pipelineVars == <<calls, searchHistory, learningPlans, resources, passes, reads, posts, writes, realUsed, world,
                 synth, fallbackCalls>>

----------------------------------------------------------------------------
(* Bounds of the model. *)

MaxChunks == 2      \* stdout 'data' events of one external process
MaxDays == 2        \* days of a generated plan when only its first pass runs
MaxDaysRead == 1    \* days of a generated plan when reads run beside the passes
MaxPlans == 1       \* POST /api/search/generate requests
MaxReads == 1       \* GET /api/resources/:planId requests
MaxReal == 1        \* lookups of a run that end otherwise than in a failure (open world)
MaxFallbackCalls == 2   \* generateFallbackResults calls observed side by side
MaxStored == 3      \* storage.addResource calls made on the store alone
MaxQueries == 52    \* distinct queries added to the search history alone
MaxLookups == 18    \* lookups of passes that end when more than one pass was started
MaxCalls == 2       \* fetchResourcesFromSource calls observed side by side
MaxCallChunks == 1  \* stdout 'data' events of each of them

----------------------------------------------------------------------------
(* Strings. *)

Whitespace == {" ", "\n"}

RECURSIVE Join(_)
Join(ws) ==
    IF Len(ws) = 0 THEN <<>>
    ELSE IF Len(ws) = 1 THEN <<ws[1]>>
    ELSE <<ws[1], " ">> \o Join(Tail(ws))

\* The value of a property that an object does not have.
Undefined == <<"<undefined>">>

\* JavaScript truthiness of a string-or-undefined value.
Truthy(v) == v # Undefined /\ v # <<>>

RECURSIVE TrimStart(_)
TrimStart(s) ==
    IF s # <<>> /\ Head(s) \in Whitespace THEN TrimStart(Tail(s)) ELSE s

RECURSIVE TrimEnd(_)
TrimEnd(s) ==
    IF s # <<>> /\ s[Len(s)] \in Whitespace
    THEN TrimEnd(SubSeq(s, 1, Len(s) - 1))
    ELSE s

Trim(s) == TrimEnd(TrimStart(s))

\* The character U+0000.
Nul == "<U+0000>"

\* A surrogate code unit (U+D800) that has no pair next to it.
LoneSurrogate == "<U+D800>"

\* encodeURIComponent throws URIError exactly on a string with a lone
\* surrogate.
encodeURIComponentThrows(s) == \E i \in DOMAIN s : s[i] = LoneSurrogate

\* encodeURIComponent on one token: unreserved characters stay, the others
\* become %XX escapes of their UTF-8 bytes.
EncodeToken(t) ==
    CASE t = " " -> "%20"
      [] t = "\n" -> "%0A"
      [] t = Nul -> "%00"
      [] t = "c++" -> "c%2B%2B"
      [] t = "q&a" -> "q%26a"
      [] OTHER -> t

encodeURIComponent(s) == [i \in DOMAIN s |-> EncodeToken(s[i])]

----------------------------------------------------------------------------
(* Candidate items and the documents an external lookup can print. *)

Sources == <<"wikipedia", "youtube", "reddit", "medium">>

SourceSet == {Sources[i] : i \in DOMAIN Sources}

NoMetadata == [present |-> FALSE, fallback |-> FALSE, type |-> ""]

ModuleImportError == Join(<<"Module", "Import", "Error">>)

NothingToSee == Join(<<"Sorry", "peeps", "nothing", "to", "see", "here">>)

ScriptItem(title, url, metadata) ==
    [nul |-> FALSE, title |-> title, url |-> url, snippet |-> <<"text">>,
     source |-> "", metadata |-> metadata]

\* A null element of the printed array.
NullItem ==
    [nul |-> TRUE, title |-> Undefined, url |-> Undefined, snippet |-> Undefined,
     source |-> "", metadata |-> NoMetadata]

Good(n) == ScriptItem(<<"Article", " ", n>>, <<"https://site/", n>>, NoMetadata)

\* What JSON.parse makes of each document an external script can print.
Docs ==
    [docGood |->
        [isArray |-> TRUE, items |-> <<Good("a"), Good("b")>>],
     docMixed |->
        [isArray |-> TRUE, items |-> <<
            Good("a"),
            ScriptItem(Undefined, <<"https://site/", "x">>, NoMetadata),
            ScriptItem(ModuleImportError, <<"https://site/", "y">>, NoMetadata),
            ScriptItem(NothingToSee, <<"https://site/", "z">>, NoMetadata),
            NullItem,
            ScriptItem(<<"No", " ", "link">>, <<>>, NoMetadata),
            ScriptItem(<<"Blank", " ", "link">>, <<" ">>, NoMetadata),
            ScriptItem(<<"Missing", " ", "link">>, Undefined, NoMetadata),
            ScriptItem(<<"Flagged">>, <<"https://site/", "f">>,
                       [present |-> TRUE, fallback |-> TRUE, type |-> "placeholder"]),
            Good("a"),
            Good("c")>>],
     docSix |->
        [isArray |-> TRUE, items |-> <<Good("c"), Good("d"), Good("e"),
                                       Good("f"), Good("g"), Good("h")>>],
     docNoLinks |->
        [isArray |-> TRUE, items |-> <<
            ScriptItem(<<"No", " ", "link">>, <<>>, NoMetadata),
            ScriptItem(<<"Missing", " ", "link">>, Undefined, NoMetadata)>>],
     docAllBad |->
        [isArray |-> TRUE, items |-> <<
            ScriptItem(ModuleImportError, <<"https://site/", "y">>, NoMetadata),
            ScriptItem(NothingToSee, <<>>, NoMetadata)>>],
     docEmpty |-> [isArray |-> TRUE, items |-> <<>>],
     docObject |-> [isArray |-> FALSE, items |-> <<>>]]

DocNames == DOMAIN Docs

\* JSON.parse(output): surrounding whitespace is accepted, anything else than
\* exactly one document throws.
JSONParse(output) ==
    LET t == Trim(output) IN
    IF Len(t) = 1 /\ t[1] \in DocNames
    THEN [threw |-> FALSE, value |-> Docs[t[1]]]
    ELSE [threw |-> TRUE, value |-> [isArray |-> FALSE, items |-> <<>>]]

----------------------------------------------------------------------------
(* Fallback Synthesizer. *)

fallbackContent(query) ==
    [wikipedia |->
        [title |-> query \o <<" - Wikipedia Overview">>,
         url |-> <<"https://en.wikipedia.org/wiki/Special:Search/">>
                    \o encodeURIComponent(query),
         snippet |-> <<"Search Wikipedia for comprehensive information about ">> \o query
                        \o <<". Click to explore detailed articles and references.">>],
     youtube |->
        [title |-> query \o <<" - Educational Videos">>,
         url |-> <<"https://www.youtube.com/results?search_query=">>
                    \o encodeURIComponent(query \o <<" ", "tutorial">>),
         snippet |-> <<"Find video tutorials and educational content about ">> \o query
                        \o <<". Learn through visual explanations and practical demonstrations.">>],
     reddit |->
        [title |-> query \o <<" - Community Discussions">>,
         url |-> <<"https://www.reddit.com/search/?q=">> \o encodeURIComponent(query),
         snippet |-> <<"Join community discussions about ">> \o query
                        \o <<". Get insights, ask questions, and learn from experienced practitioners.">>],
     medium |->
        [title |-> query \o <<" - Technical Articles">>,
         url |-> <<"https://medium.com/search?q=">> \o encodeURIComponent(query),
         snippet |-> <<"Read in-depth technical articles about ">> \o query
                        \o <<". Explore expert insights and practical implementation guides.">>]]

\* The object literal fallbackContent holds the entries of all four sources,
\* so a call evaluates every encodeURIComponent of it, whatever the source;
\* the URIError of one of them leaves generateFallbackResults uncaught.
generateFallbackResultsThrows(source, query) ==
    \/ encodeURIComponentThrows(query)
    \/ encodeURIComponentThrows(query \o <<" ", "tutorial">>)

\* The list the call returns when it does not throw.
generateFallbackResults(source, query) ==
    LET content == fallbackContent(query)[source] IN
    << [nul |-> FALSE,
        title |-> content.title,
        url |-> content.url,
        snippet |-> content.snippet,
        source |-> source,
        metadata |-> [present |-> TRUE, fallback |-> FALSE, type |-> "fallback_search"]] >>
    \* metadata carries source, type and note; it has no property named fallback

----------------------------------------------------------------------------
(* Source Fetcher: one call of fetchResourcesFromSource. *)

\* The delay of the deadline timer, in milliseconds.
DeadlineMs == 15000

NoCall ==
    [active |-> FALSE, source |-> "", query |-> <<>>, output |-> <<>>, deadline |-> 0,
     settled |-> "pending", result |-> <<>>, uncaught |-> FALSE,
     spawned |-> FALSE, killCalled |-> FALSE, closed |-> FALSE, errored |-> FALSE,
     exitOk |-> FALSE, timerFired |-> FALSE, timerFiredOpen |-> FALSE,
     lateBeside |-> FALSE]

\* new Promise(...): spawn the process, register the handlers, arm the timer.
fetchResourcesFromSource(source, query) ==
    [NoCall EXCEPT !.active = TRUE, !.source = source, !.query = query,
                   !.spawned = TRUE, !.deadline = DeadlineMs]

\* The ways the call fetchResourcesFromSource(source, query) can begin.  On
\* an argument that holds U+0000 the Node versions that validate the arguments
\* of spawn throw ERR_INVALID_ARG_VALUE, the older ones start the process.
\* When spawn throws inside the Promise executor the promise is rejected with
\* the exception: no process runs, no handler is registered, no timer is armed.
CallBeginnings(source, query) ==
    {fetchResourcesFromSource(source, query)}
    \cup (IF \E i \in DOMAIN query : query[i] = Nul
          THEN {[NoCall EXCEPT !.active = TRUE, !.source = source, !.query = query,
                               !.settled = "rejected"]}
          ELSE {})

\* Variant of Resolve: every call of resolve replaces the value.
Resolve_Overwrite(c, value) == [c EXCEPT !.settled = "resolved", !.result = value]

\* resolve(value): a promise settles once; later calls change nothing.
Resolve(c, value) ==
    IF c.settled = "pending"
    THEN [c EXCEPT !.settled = "resolved", !.result = value]
    ELSE c

\* resolve(generateFallbackResults(source, query)) in a callback: the argument
\* is evaluated first; when it throws, resolve is not called and the exception
\* leaves the callback.
ResolveFallback(c) ==
    IF generateFallbackResultsThrows(c.source, c.query)
    THEN [c EXCEPT !.uncaught = TRUE]
    ELSE Resolve(c, generateFallbackResults(c.source, c.query))

\* python.stdout.on('data')
StdoutHandler(c, data) == [c EXCEPT !.output = c.output \o <<data>>]

\* The filter of the 'close' handler.
IsValidResult(r) ==
    /\ ~r.nul
    /\ Truthy(r.title)
    /\ r.title # ModuleImportError
    /\ r.title # NothingToSee

\* python.on('close'): JSON.parse, result.filter and the resolve of a non-empty
\* list run inside try; every other path, the catch block included, resolves
\* the fallback (an exception thrown inside try by generateFallbackResults is
\* caught and thrown again by the call in the catch block).
CloseHandler(c, code) ==
    IF code = 0 /\ Trim(c.output) # <<>>
    THEN LET parsed == JSONParse(c.output) IN
         IF parsed.threw \/ ~parsed.value.isArray
         THEN ResolveFallback(c)
         ELSE LET validResults == SelectSeq(parsed.value.items, IsValidResult) IN
              IF Len(validResults) > 0 THEN Resolve(c, validResults) ELSE ResolveFallback(c)
    ELSE ResolveFallback(c)

\* python.on('error')
ErrorHandler(c) == ResolveFallback(c)

\* Variant of TimeoutHandler: kills and leaves the result to the 'close' handler.
TimeoutHandler_KillOnly(c) == [c EXCEPT !.killCalled = TRUE]

\* setTimeout(..., 15000): kill, then resolve the fallback.
TimeoutHandler(c) == ResolveFallback([c EXCEPT !.killCalled = TRUE])

----------------------------------------------------------------------------
(* SpecFetch: every order of the events of one Source Fetcher call on a      *)
(* query that is well-formed text.  SpecFetchAny: the same on any query.     *)

FetchQueries == {<<"rust">>, <<"c++", " ", "day", " ", "1">>}

\* Queries that are not text: a lone surrogate, and a U+0000 between words.
AnyQueries == FetchQueries \cup {<<LoneSurrogate>>, <<"rust", Nul, "day">>}

Chunks == {"\n", "garbage"} \cup DocNames

\* Exit codes of 'close': 0, 1, null after a signal (-1), spawn failure (-2).
ExitCodes == {0, 1, -1}

SpawnFailureCode == -2

FetchStart(source, query) ==
    /\ ~call.active
    /\ call' \in CallBeginnings(source, query)
    /\ UNCHANGED pipelineVars

\* The events of the calls cs can be handled: their processes were spawned,
\* and no exception has left a callback.  Such an exception reaches the event
\* loop; the server installs no 'uncaughtException' handler, so the server
\* process ends and no further event is handled.
AllRun(cs) == \A j \in DOMAIN cs : cs[j].spawned /\ ~cs[j].uncaught

ProcStdout(data) ==
    /\ AllRun(<<call>>)
    /\ call.active /\ ~call.closed /\ ~call.errored
    /\ Len(call.output) < MaxChunks
    /\ call' = StdoutHandler(call, data)
    /\ UNCHANGED pipelineVars

ProcClose(code) ==
    /\ AllRun(<<call>>)
    /\ call.active /\ ~call.closed
    /\ call.errored <=> code = SpawnFailureCode
    /\ call' = [CloseHandler(call, code) EXCEPT !.closed = TRUE, !.exitOk = (code = 0)]
    /\ UNCHANGED pipelineVars

ProcError ==
    /\ AllRun(<<call>>)
    /\ call.active /\ ~call.closed /\ ~call.errored /\ ~call.timerFired
    /\ call.output = <<>>
    /\ call' = [ErrorHandler(call) EXCEPT !.errored = TRUE]
    /\ UNCHANGED pipelineVars

TimerFire ==
    /\ AllRun(<<call>>)
    /\ call.active /\ ~call.timerFired
    /\ call' = [TimeoutHandler(call) EXCEPT !.timerFired = TRUE,
                                            !.timerFiredOpen = ~call.closed]
    /\ UNCHANGED pipelineVars

OpenWorld == [open |-> TRUE, content |-> {}]

\* No query list derived yet.
NoSynth ==
    [stage |-> "idle", topic |-> <<>>, title |-> <<>>, phase |-> "", microTopics |-> <<>>,
     base |-> <<>>, threw |-> FALSE, source |-> "", optimized |-> <<>>]

InitPipeline ==
    /\ searchHistory = <<>>
    /\ learningPlans = <<>>
    /\ resources = <<>>
    /\ passes = <<>>
    /\ reads = <<>>
    /\ posts = <<>>
    /\ writes = <<>>
    /\ realUsed = 0
    /\ synth = NoSynth
    /\ fallbackCalls = <<>>
    /\ calls = <<>>

InitFetch == call = NoCall /\ InitPipeline /\ world = OpenWorld

NextFetch ==
    \/ \E s \in SourceSet, q \in FetchQueries : FetchStart(s, q)
    \/ \E d \in Chunks : ProcStdout(d)
    \/ \E code \in ExitCodes \cup {SpawnFailureCode} : ProcClose(code)
    \/ ProcError
    \/ TimerFire

SpecFetch == InitFetch /\ [][NextFetch]_vars

NextFetchAny ==
    \/ \E s \in SourceSet, q \in AnyQueries : FetchStart(s, q)
    \/ \E d \in Chunks : ProcStdout(d)
    \/ \E code \in ExitCodes \cup {SpawnFailureCode} : ProcClose(code)
    \/ ProcError
    \/ TimerFire

SpecFetchAny == InitFetch /\ [][NextFetchAny]_vars

\* The title check the Source Fetcher owes its callers.
TitleAccepted(r) ==
    /\ ~r.nul
    /\ r.title \notin {Undefined, <<>>, ModuleImportError, NothingToSee}

\* C4: for every source and every query, a Source Fetcher call is never
\* rejected and lets no exception escape; once the process has closed, failed
\* to start or run into the deadline the call is resolved, and what it resolves
\* to is a non-empty list: the items of the printed array with an accepted
\* title, or the fallback of (source, query).
C4_FetchNeverFailsOutward ==
    call.active =>
        /\ call.settled # "rejected"
        /\ ~call.uncaught
        /\ (call.closed \/ call.errored \/ call.timerFired) => call.settled = "resolved"
        /\ call.settled = "resolved" =>
            /\ Len(call.result) >= 1
            /\ \/ call.result = generateFallbackResults(call.source, call.query)
               \/ /\ call.closed /\ call.exitOk
                  /\ ~JSONParse(call.output).threw
                  /\ call.result = SelectSeq(JSONParse(call.output).value.items,
                                             TitleAccepted)

----------------------------------------------------------------------------
(* Sequence helpers of the JavaScript array methods used. *)

Min(a, b) == IF a < b THEN a ELSE b

\* array.slice(0, n)
SliceTo(seq, n) == SubSeq(seq, 1, Min(n, Len(seq)))

\* [...new Set(array)]: the first occurrence of each value, in order.
SetOrder(seq) ==
    LET F[i \in 0..Len(seq)] ==
            IF i = 0 THEN <<>>
            ELSE IF \E j \in 1..(i - 1) : seq[j] = seq[i]
                 THEN F[i - 1]
                 ELSE Append(F[i - 1], seq[i])
    IN F[Len(seq)]

\* A value inside a template literal: a missing property prints as "undefined".
Tpl(v) == IF v = Undefined THEN <<"undefined">> ELSE v

Sp == <<" ">>

----------------------------------------------------------------------------
(* Query Synthesizer and Source Query Optimizer. *)

PhaseQueries(baseTopic, dayTitle, phase) ==
    LET b == Tpl(baseTopic) \o Sp \o Tpl(dayTitle) IN
    CASE phase = "beginner" ->
            <<b \o <<" ", "fundamentals">>, b \o <<" ", "basics">>, <<"learn", " ">> \o b>>
      [] phase = "intermediate" ->
            <<b \o <<" ", "practical">>, b \o <<" ", "implementation">>,
              b \o <<" ", "examples">>>>
      [] phase = "advanced" ->
            <<b \o <<" ", "advanced">>, b \o <<" ", "optimization">>,
              b \o <<" ", "best", " ", "practices">>>>
      [] OTHER -> <<>>

MicroTopicQueries(baseTopic, microTopic, phase) ==
    <<Tpl(baseTopic) \o Sp \o microTopic,
      microTopic \o <<" ", "explained">>,
      microTopic \o <<" ", "tutorial">>,
      Tpl(baseTopic) \o Sp \o microTopic \o Sp \o <<phase>>>>

RECURSIVE AllMicroTopicQueries(_, _, _)
AllMicroTopicQueries(baseTopic, items, phase) ==
    IF items = <<>> THEN <<>>
    ELSE MicroTopicQueries(baseTopic, Head(items), phase)
            \o AllMicroTopicQueries(baseTopic, Tail(items), phase)

\* Variant of generateComprehensiveSearchQueries: the cut without the dedupe.
generateComprehensiveSearchQueries_NoDedupe(planStructure, day) ==
    LET baseTopic == planStructure.topic
        phase == IF day.phase = "" THEN "beginner" ELSE day.phase
        b == Tpl(baseTopic) \o Sp \o Tpl(day.title)
        queries ==
            <<b, b \o <<" ", "tutorial">>, b \o <<" ", "guide">>>>
            \o PhaseQueries(baseTopic, day.title, phase)
            \o AllMicroTopicQueries(baseTopic, day.microTopics.items, phase)
            \o <<Tpl(baseTopic) \o <<" ", "documentation">>,
                 Tpl(baseTopic) \o <<" ", "reference">>,
                 Tpl(baseTopic) \o <<" ", "technical", " ", "guide">>>>
    IN [threw |-> FALSE, queries |-> SliceTo(queries, 12)]

\* day.microTopics is "array" (with items), "missing" (falsy: the || [] default)
\* or "string" (a truthy value without forEach: the call throws a TypeError).
generateComprehensiveSearchQueries(planStructure, day) ==
    LET baseTopic == planStructure.topic
        dayTitle == day.title
        microTopics == IF day.microTopics.kind = "missing"
                       THEN [kind |-> "array", items |-> <<>>]
                       ELSE day.microTopics
        phase == IF day.phase = "" THEN "beginner" ELSE day.phase
        b == Tpl(baseTopic) \o Sp \o Tpl(dayTitle)
        queries ==
            <<b, b \o <<" ", "tutorial">>, b \o <<" ", "guide">>>>
            \o PhaseQueries(baseTopic, dayTitle, phase)
            \o AllMicroTopicQueries(baseTopic, microTopics.items, phase)
            \o <<Tpl(baseTopic) \o <<" ", "documentation">>,
                 Tpl(baseTopic) \o <<" ", "reference">>,
                 Tpl(baseTopic) \o <<" ", "technical", " ", "guide">>>>
    IN IF microTopics.kind # "array"
       THEN [threw |-> TRUE, queries |-> <<>>]
       ELSE [threw |-> FALSE, queries |-> SliceTo(SetOrder(queries), 12)]

SourceAdditions(source, topic) ==
    LET t == Tpl(topic) IN
    CASE source = "youtube" ->
            <<t \o <<" ", "tutorial", " ", "step", " ", "by", " ", "step">>,
              <<"how", " ", "to", " ", "learn", " ">> \o t,
              t \o <<" ", "course">>,
              t \o <<" ", "explained">>>>
      [] source = "medium" ->
            <<t \o <<" ", "deep", " ", "dive">>,
              t \o <<" ", "comprehensive", " ", "guide">>,
              <<"mastering", " ">> \o t,
              t \o <<" ", "best", " ", "practices">>>>
      [] source = "reddit" ->
            <<<<"learning", " ">> \o t,
              t \o <<" ", "discussion">>,
              t \o <<" ", "help">>,
              t \o <<" ", "resources">>>>
      [] source = "wikipedia" ->
            <<t \o <<" ", "overview">>,
              t \o <<" ", "introduction">>,
              t \o <<" ", "theory">>,
              t \o <<" ", "principles">>>>
      [] OTHER -> <<>>

\* Variant of optimizeQueriesForSource: the cut of the base list, 12, is used.
optimizeQueriesForSource_CutAtTwelve(source, baseQueries, topic) ==
    SliceTo(SetOrder(baseQueries \o SourceAdditions(source, topic)), 12)

\* Variant of optimizeQueriesForSource: the cut without the dedupe.
optimizeQueriesForSource_NoDedupe(source, baseQueries, topic) ==
    SliceTo(baseQueries \o SourceAdditions(source, topic), 8)

optimizeQueriesForSource(source, baseQueries, topic) ==
    SliceTo(SetOrder(baseQueries \o SourceAdditions(source, topic)), 8)

----------------------------------------------------------------------------
(* Curriculum generation (generateLearningPlan and its fallback plan). *)

PhaseOf(dayNumber, duration) ==
    LET beginnerEnd == duration \div 3
        intermediateEnd == (duration * 2) \div 3
    IN IF dayNumber > intermediateEnd THEN "advanced"
       ELSE IF dayNumber > beginnerEnd THEN "intermediate"
       ELSE "beginner"

ParenPhase(phase) ==
    CASE phase = "beginner" -> "(beginner)"
      [] phase = "intermediate" -> "(intermediate)"
      [] OTHER -> "(advanced)"

generateFallbackPlan(topic, duration) ==
    [topic |-> topic,
     duration |-> duration,
     days |-> [i \in 1..duration |->
        [day |-> i,
         title |-> topic \o <<" ", "-", " ", "Day", " ", ToString(i), " ",
                              ParenPhase(PhaseOf(i, duration))>>,
         phase |-> PhaseOf(i, duration),
         microTopics |-> [kind |-> "array", items |-> <<
            Join(<<"Introduction", "to", "Day", ToString(i), "concepts">>),
            Join(<<"Core", "principles", "and", "theory">>),
            Join(<<"Practical", "examples", "and", "applications">>),
            Join(<<"Review", "and", "practice", "exercises">>)>>]]]]

\* gemini is what the model call produced: "failed" (rejected, unparseable, or
\* without a days array) or a parsed result whose days are renumbered, given
\* their phase by position, and whose missing microTopics default to [].
generateLearningPlan(topic, duration, gemini) ==
    IF gemini.failed
    THEN generateFallbackPlan(topic, duration)
    ELSE [topic |-> gemini.topic,
          duration |-> gemini.duration,
          days |-> [i \in DOMAIN gemini.days |->
             [day |-> i,
              title |-> gemini.days[i].title,
              phase |-> PhaseOf(i, duration),
              microTopics |->
                 IF gemini.days[i].microTopics.kind = "missing"
                 THEN [kind |-> "array", items |-> <<>>]
                 ELSE gemini.days[i].microTopics]]]

----------------------------------------------------------------------------
(* Persistent store (MemStorage). *)

HistoryKept == 50

\* Variant of addSearchHistory: the cut leaves out the entries before the new
\* one instead of the oldest.
addSearchHistory_DropRecent(history, query) ==
    LET pushed == Append(SelectSeq(history, LAMBDA item : item.query # query),
                         [query |-> query])
    IN IF Len(pushed) > HistoryKept
       THEN Append(SubSeq(pushed, 1, HistoryKept - 1), [query |-> query])
       ELSE pushed

\* The entry of the same query goes, the new entry is pushed, and the last
\* HistoryKept entries stay.
addSearchHistory(history, query) ==
    LET pushed == Append(SelectSeq(history, LAMBDA item : item.query # query),
                         [query |-> query])
    IN IF Len(pushed) > HistoryKept
       THEN SubSeq(pushed, Len(pushed) - HistoryKept + 1, Len(pushed))
       ELSE pushed

clearSearchHistory(history) == <<>>

createLearningPlan(plans, topic, duration, planStructure) ==
    Append(plans, [id |-> Len(plans) + 1, topic |-> topic, duration |-> duration,
                   plan |-> planStructure])

\* learningPlans.get(id): defined or not.
HasLearningPlan(plans, id) == id \in DOMAIN plans

\* Variant of addResource: the record is inserted twice.
addResource_Twice(store, planId, day, source, data) ==
    store \o <<[id |-> Len(store) + 1, planId |-> planId, day |-> day,
                source |-> source, data |-> data],
               [id |-> Len(store) + 2, planId |-> planId, day |-> day,
                source |-> source, data |-> data]>>

\* Variant of addResource: a record of the same plan, day and source is
\* replaced instead of a new one being added.
addResource_Upsert(store, planId, day, source, data) ==
    IF \E k \in DOMAIN store :
            store[k].planId = planId /\ store[k].day = day /\ store[k].source = source
    THEN [k \in DOMAIN store |->
            IF store[k].planId = planId /\ store[k].day = day /\ store[k].source = source
            THEN [store[k] EXCEPT !.data = data]
            ELSE store[k]]
    ELSE Append(store, [id |-> Len(store) + 1, planId |-> planId, day |-> day,
                        source |-> source, data |-> data])

\* resources.set(randomUUID(), item): a new entry, after all existing ones.
addResource(store, planId, day, source, data) ==
    Append(store, [id |-> Len(store) + 1, planId |-> planId, day |-> day,
                   source |-> source, data |-> data])

\* A stable sort by day: days ascending, insertion order within a day.
RECURSIVE SortByDay(_, _)
SortByDay(seq, days) ==
    IF days = {} THEN <<>>
    ELSE LET m == CHOOSE x \in days : \A y \in days : x <= y IN
         SelectSeq(seq, LAMBDA r : r.day = m) \o SortByDay(seq, days \ {m})

\* Variant of getResourcesByPlanId: no filter by plan.
getResourcesByPlanId_All(store, planId) ==
    SortByDay(store, {store[i].day : i \in DOMAIN store})

getResourcesByPlanId(store, planId) ==
    LET mine == SelectSeq(store, LAMBDA r : r.planId = planId) IN
    SortByDay(mine, {mine[i].day : i \in DOMAIN mine})

----------------------------------------------------------------------------
(* External lookups as the pipeline sees them: the first event of a call     *)
(* settles it, by the handler of that event.                                 *)

EmptyMap == [x \in {} |-> <<>>]

Put(f, k, v) == [x \in DOMAIN f \cup {k} |-> IF x = k THEN v ELSE f[x]]

\* Documents of the pipeline specification.
PipelineDocs == {"docMixed", "docSix", "docNoLinks"}

\* Lookup endings that are failures: deadline, failure to start, non-zero
\* exit, unparseable output.
FailureEvents ==
    {[kind |-> "timeout", code |-> -1, output |-> <<>>],
     [kind |-> "error", code |-> -2, output |-> <<>>],
     [kind |-> "close", code |-> 1, output |-> <<>>],
     [kind |-> "close", code |-> 0, output |-> <<"garbage">>]}

\* Exit code 0 without output.
SilentEvents == {[kind |-> "close", code |-> 0, output |-> <<>>]}

\* Exit code 0 with a JSON document.
RealEvents == {[kind |-> "close", code |-> 0, output |-> <<d, "\n">>] : d \in PipelineDocs}

LookupEvents == FailureEvents \cup SilentEvents \cup RealEvents

DocEvent(d) == [kind |-> "close", code |-> 0, output |-> <<d, "\n">>]

Timeout == [kind |-> "timeout", code |-> -1, output |-> <<>>]

\* The external sources.  In an open world any lookup may end in any way, up
\* to MaxReal lookups otherwise than in a failure.  In a closed world a source
\* holds a document for some queries: a lookup of such a query prints it or
\* fails, any other lookup fails.
Worlds ==
    {[open |-> FALSE, content |-> {}],
     [open |-> FALSE, content |-> {[source |-> "youtube",
                                    query |-> Join(<<"rust", "ownership", "day", "1",
                                                     "fundamentals">>),
                                    doc |-> "docSix"]}]}

\* The ways other than failure in which a lookup of (source, query) can end.
NonFailureEvents(source, query) ==
    IF world.open
    THEN IF realUsed < MaxReal THEN SilentEvents \cup RealEvents ELSE {}
    ELSE {DocEvent(c.doc) : c \in {x \in world.content :
                                      x.source = source /\ x.query = query}}

\* The failures explored in a closed world: the deadline and a nonzero exit.
ClosedFailures == {e \in FailureEvents : e.kind = "timeout" \/ e.code = 1}

EventsOf(source, query) ==
    (IF world.open THEN FailureEvents ELSE ClosedFailures)
    \cup NonFailureEvents(source, query)

Counted(n, ev) == IF ev \in FailureEvents THEN n ELSE Min(n + 1, MaxReal)

\* The call fetchResourcesFromSource(source, query) after its first event ev.
AfterFirstEvent(source, query, ev) ==
    LET c == fetchResourcesFromSource(source, query) IN
    CASE ev.kind = "timeout" -> TimeoutHandler(c)
      [] ev.kind = "error" -> ErrorHandler(c)
      [] OTHER -> CloseHandler([c EXCEPT !.output = ev.output], ev.code)

\* `await fetchResourcesFromSource(source, query)` returns once the promise is
\* resolved.
Settles(source, query, ev) == AfterFirstEvent(source, query, ev).settled = "resolved"

\* What the await yields when ev is the first event of the call.
Delivered(source, query, ev) == AfterFirstEvent(source, query, ev).result

----------------------------------------------------------------------------
(* Plan Resource Orchestrator and Day Aggregator (fetchResourcesForPlan).    *)
(* A pass runs from one await to the next in one step; pc is "await" while   *)
(* a lookup is in flight, "done" after the completion log, "aborted" after   *)
(* the outer catch.                                                          *)

NewPass(planId) ==
    [planId |-> planId, pc |-> "run", d |-> 0, s |-> 0, q |-> 0,
     sourceQueries |-> <<>>, allResources |-> <<>>, unitsAttempted |-> 0, finished |-> 0, spawned |-> 0,
     unitFailedOnly |-> TRUE, returned |-> 0, unitResults |-> <<>>, resolved |-> 0]

\* Variant of StartUnit: the lookups of all queries of the unit are started
\* together.
StartUnit_AllAtOnce(pass, searchQueries, topic, d, s) ==
    LET sourceQueries == optimizeQueriesForSource(Sources[s], searchQueries, topic) IN
    [pass EXCEPT !.pc = "await", !.d = d, !.s = s, !.q = 1,
                 !.sourceQueries = sourceQueries,
                 !.allResources = <<>>,
                 !.unitsAttempted = @ + 1, !.spawned = @ + Len(sourceQueries),
                 !.unitFailedOnly = TRUE, !.returned = 0, !.unitResults = <<>>]

\* Entering the try of one (day, source) unit up to its first lookup.
StartUnit(pass, searchQueries, topic, d, s) ==
    [pass EXCEPT !.pc = "await", !.d = d, !.s = s, !.q = 1,
                 !.sourceQueries = optimizeQueriesForSource(Sources[s], searchQueries, topic),
                 !.allResources = <<>>,
                 !.unitsAttempted = @ + 1, !.spawned = @ + 1,
                 !.unitFailedOnly = TRUE, !.returned = 0, !.unitResults = <<>>]

Ended(pass, pc) ==
    [pass EXCEPT !.pc = pc, !.d = 0, !.s = 0, !.q = 0, !.sourceQueries = <<>>,
                 !.allResources = <<>>, !.unitFailedOnly = TRUE, !.returned = 0,
                 !.unitResults = <<>>]

\* The head of the day loop: past the last day the completion is logged; a
\* throw of the query derivation leaves the loop for the outer catch.
EnterDay(pass, planStructure, d) ==
    IF d > Len(planStructure.days)
    THEN [Ended(pass, "done") EXCEPT !.finished = @ + 1]
    ELSE LET searchQueries ==
                generateComprehensiveSearchQueries(planStructure, planStructure.days[d])
         IN IF searchQueries.threw
            THEN Ended(pass, "aborted")
            ELSE StartUnit(pass, searchQueries.queries, planStructure.topic, d, 1)

\* The call itself: everything up to the first await.
fetchResourcesForPlan(planId, planStructure) ==
    EnterDay(NewPass(planId), planStructure, 1)

\* Variant of IsValidResource: no check of the url.
IsValidResource_AnyUrl(r) ==
    /\ ~(r.metadata.present /\ r.metadata.fallback)
    /\ r.title # NothingToSee

\* The filter of the aggregation loop.
IsValidResource(r) ==
    /\ ~(r.metadata.present /\ r.metadata.fallback)
    /\ r.title # NothingToSee
    /\ Truthy(r.url) /\ Trim(r.url) # <<>>

\* resources.filter(...) inside the query's try: reading metadata of a null
\* element throws, and the catch drops the query's result.
ValidResources(res) ==
    IF \E i \in DOMAIN res : res[i].nul THEN <<>> ELSE SelectSeq(res, IsValidResource)

\* filter(index === self.findIndex(r => r.url === resource.url))
UniqueByUrl(all) ==
    LET F[i \in 0..Len(all)] ==
            IF i = 0 THEN <<>>
            ELSE IF \E j \in 1..(i - 1) : all[j].url = all[i].url
                 THEN F[i - 1]
                 ELSE Append(F[i - 1], all[i])
    IN F[Len(all)]

UniqueResources(all) == SliceTo(UniqueByUrl(all), 5)

\* The continuation of pass number i after its lookup delivered res: the rest
\* of the unit, the persistence write, and on to the next lookup or the end.
\* spawned counts the lookups the pass has started, resolved those whose await
\* has returned.
PassContinue(i, pass, planStructure, res, failed, store, log) ==
    LET all == pass.allResources \o (IF Len(res) > 0 THEN ValidResources(res) ELSE <<>>)
        sourceQueries == pass.sourceQueries
        unitFailedOnly == pass.unitFailedOnly /\ failed
        returned == pass.returned + Len(res)
        unitResults == pass.unitResults \o res
        resumed == [pass EXCEPT !.resolved = @ + 1]
    IN
    IF pass.q < Len(sourceQueries)
    THEN [pass |-> [resumed EXCEPT !.q = @ + 1, !.allResources = all, !.spawned = @ + 1,
                                !.unitFailedOnly = unitFailedOnly,
                                !.returned = returned,
                                !.unitResults = unitResults],
          resources |-> store,
          writes |-> log]
    ELSE LET uniqueResources == UniqueResources(all)
             save == Len(uniqueResources) > 0
         IN [pass |-> IF pass.s < Len(Sources)
                      THEN StartUnit(resumed,
                                     generateComprehensiveSearchQueries(
                                         planStructure, planStructure.days[pass.d]).queries,
                                     planStructure.topic, pass.d, pass.s + 1)
                      ELSE EnterDay(resumed, planStructure, pass.d + 1),
             resources |-> IF save
                           THEN addResource(store, pass.planId,
                                            planStructure.days[pass.d].day,
                                            Sources[pass.s], uniqueResources)
                           ELSE store,
             writes |-> IF save
                        THEN Append(log, [pass |-> i, planId |-> pass.planId,
                                          day |-> planStructure.days[pass.d].day,
                                          source |-> Sources[pass.s],
                                          failedOnly |-> unitFailedOnly,
                                          returned |-> returned,
                                          results |-> unitResults])
                        ELSE log]

----------------------------------------------------------------------------
(* Immediate-Resources Fast Path (generateImmediateResources). *)

ImmediateQuery(topic, day) ==
    topic \o <<" ", "day", " ", ToString(day), " ", "fundamentals">>

\* Variant of ImmediateDays: the loop runs over every day of the duration.
ImmediateDays_Unbounded(duration) == duration

\* The upper end of the day loop.
ImmediateDays(duration) == Min(duration, 5)

\* Variant of RowAsRecord: each list goes through the Day Aggregator's filter,
\* dedupe and cut to five.
RowAsRecord_Aggregated(row) ==
    [wikipedia |-> UniqueResources(ValidResources(row[1])),
     youtube |-> UniqueResources(ValidResources(row[2])),
     reddit |-> UniqueResources(ValidResources(row[3])),
     medium |-> UniqueResources(ValidResources(row[4]))]

\* The object literal of one day, once its four awaits are through.
RowAsRecord(row) ==
    [wikipedia |-> row[1], youtube |-> row[2], reddit |-> row[3], medium |-> row[4]]

\* Variant of GroupResources: the first record of a day and source stays.
GroupResources_FirstWins(recs) ==
    LET F[i \in 0..Len(recs)] ==
            IF i = 0 THEN EmptyMap
            ELSE LET r == recs[i]
                     g == F[i - 1]
                     inner == IF r.day \in DOMAIN g THEN g[r.day] ELSE EmptyMap
                 IN IF r.source \in DOMAIN inner THEN g
                    ELSE Put(g, r.day, Put(inner, r.source, r.data))
    IN F[Len(recs)]

\* Group the stored records by day and source, in the order read: a later
\* record of the same day and source replaces the earlier one.
GroupResources(recs) ==
    LET F[i \in 0..Len(recs)] ==
            IF i = 0 THEN EmptyMap
            ELSE LET r == recs[i]
                     g == F[i - 1]
                     inner == IF r.day \in DOMAIN g THEN g[r.day] ELSE EmptyMap
                 IN Put(g, r.day, Put(inner, r.source, r.data))
    IN F[Len(recs)]

NoResponse == [sent |-> FALSE, status |-> 0, body |-> EmptyMap]

----------------------------------------------------------------------------
(* Inputs of the pipeline specification.  The topic is text; what a topic   *)
(* with a lone surrogate or U+0000 does to a lookup is in SpecFetchAny.     *)

Topics == {<<"rust", " ", "ownership">>}

Durations == {2, 30}

IntroDay ==
    [title |-> Join(<<"Intro", "to", "ownership">>),
     microTopics |-> [kind |-> "array",
                      items |-> <<Join(<<"move", "semantics">>), <<"borrowing">>>>]]

\* A day whose microTopics came back as one string instead of an array.
BrokenDay ==
    [title |-> <<"Lifetimes">>, microTopics |-> [kind |-> "string", items |-> <<>>]]

RawDayLists ==
    {<<>>, <<IntroDay>>, <<BrokenDay>>, <<IntroDay, BrokenDay>>, <<BrokenDay, IntroDay>>}

GeminiResults(topic, duration) ==
    {[failed |-> TRUE, topic |-> topic, duration |-> duration, days |-> <<>>]}
    \cup {[failed |-> FALSE, topic |-> topic, duration |-> duration, days |-> ds] :
            ds \in RawDayLists}

----------------------------------------------------------------------------
(* The pipeline: request handlers and lookup completions. *)

\* POST /api/search/generate up to `await generateLearningPlan(topic, duration)`:
\* the topic enters the search history and the handler waits for the model
\* call.
PostGenerate(topic, duration) ==
    /\ Len(posts) < MaxPlans
    /\ searchHistory' = addSearchHistory(searchHistory, topic)
    /\ posts' = Append(posts, [pc |-> "generate", topic |-> topic, duration |-> duration,
                               planId |-> 0, status |-> 0, pass |-> 0,
                               lookupsStarted |-> 0])
    /\ UNCHANGED <<call, calls, synth, fallbackCalls, learningPlans, resources, passes, reads,
                   writes, realUsed, world>>

\* The model call of POST number p has answered (gemini): the plan is stored,
\* the pass is called (it runs up to its first await), then the response is
\* sent.
PostPlanGenerated(p, gemini, maxDays) ==
    LET post == posts[p]
        planStructure == generateLearningPlan(post.topic, post.duration, gemini)
        plans == createLearningPlan(learningPlans, post.topic, post.duration, planStructure)
        plan == plans[Len(plans)]
        pass == fetchResourcesForPlan(plan.id, planStructure)
    IN /\ post.pc = "generate"
       /\ gemini \in GeminiResults(post.topic, post.duration)
       /\ Len(planStructure.days) <= maxDays
       /\ learningPlans' = plans
       /\ passes' = Append(passes, pass)
       /\ posts' = [posts EXCEPT ![p] =
                        [post EXCEPT !.pc = "done", !.planId = plan.id, !.status = 200,
                                     !.pass = Len(passes) + 1,
                                     !.lookupsStarted = pass.spawned]]
       /\ UNCHANGED <<call, calls, synth, fallbackCalls, searchHistory, resources, reads, writes,
                      realUsed, world>>

\* DELETE /api/search/history: storage.clearSearchHistory() is called.
ClearHistory ==
    /\ searchHistory' = clearSearchHistory(searchHistory)
    /\ UNCHANGED <<call, calls, learningPlans, resources, passes, reads, posts, writes,
                   realUsed, world, synth, fallbackCalls>>

\* A lookup of pass i ends with event ev; the pass runs on to its next await.
PassLookupSettles(i, ev) ==
    LET pass == passes[i]
        planStructure == learningPlans[pass.planId].plan
        res == Delivered(Sources[pass.s], pass.sourceQueries[pass.q], ev)
        next == PassContinue(i, pass, planStructure, res, ev \in FailureEvents,
                             resources, writes)
    IN /\ pass.pc = "await"
       /\ ev \in EventsOf(Sources[pass.s], pass.sourceQueries[pass.q])
       /\ Settles(Sources[pass.s], pass.sourceQueries[pass.q], ev)
       /\ passes' = [passes EXCEPT ![i] = next.pass]
       /\ resources' = next.resources
       /\ writes' = next.writes
       /\ realUsed' = Counted(realUsed, ev)
       /\ UNCHANGED <<call, calls, synth, fallbackCalls, searchHistory, learningPlans, reads, posts, world>>

\* GET /api/resources/:planId up to its response or its first await.
GetResources(planId) ==
    LET found == getResourcesByPlanId(resources, planId)
        groupedResources == GroupResources(found)
        immediate == Len(found) = 0 /\ HasLearningPlan(learningPlans, planId)
        plan == learningPlans[planId]
    IN /\ Len(reads) < MaxReads
       /\ IF immediate
          THEN /\ passes' = Append(passes, fetchResourcesForPlan(plan.id, plan.plan))
               /\ reads' = Append(reads,
                    [planId |-> planId, planExists |-> TRUE, immediate |-> TRUE,
                     pass |-> Len(passes) + 1, pc |-> "await", day |-> 1, s |-> 1,
                     row |-> <<>>, groupedResources |-> EmptyMap,
                     issued |-> <<[day |-> 1, source |-> Sources[1],
                                   query |-> ImmediateQuery(plan.topic, 1)]>>,
                     response |-> NoResponse])
          ELSE /\ passes' = passes
               /\ reads' = Append(reads,
                    [planId |-> planId,
                     planExists |-> HasLearningPlan(learningPlans, planId),
                     immediate |-> FALSE, pass |-> 0, pc |-> "done", day |-> 0, s |-> 0,
                     row |-> <<>>, groupedResources |-> groupedResources,
                     issued |-> <<>>,
                     response |-> [sent |-> TRUE, status |-> 200,
                                   body |-> groupedResources]])
       /\ UNCHANGED <<call, calls, synth, fallbackCalls, searchHistory, learningPlans, resources, posts, writes, realUsed, world>>

\* A lookup of the immediate path of read r ends with event ev; the path runs
\* on to its next lookup, or returns and the response is sent.
ImmediateLookupSettles(r, ev) ==
    LET read == reads[r]
        plan == learningPlans[read.planId]
        res == Delivered(Sources[read.s], ImmediateQuery(plan.topic, read.day), ev)
        row == Append(read.row, res)
        grouped == Put(read.groupedResources, read.day, RowAsRecord(row))
    IN /\ read.pc = "await"
       /\ ev \in EventsOf(Sources[read.s], ImmediateQuery(plan.topic, read.day))
       /\ Settles(Sources[read.s], ImmediateQuery(plan.topic, read.day), ev)
       /\ realUsed' = Counted(realUsed, ev)
       /\ reads' = [reads EXCEPT ![r] =
            IF read.s < Len(Sources)
            THEN [read EXCEPT !.s = @ + 1, !.row = row,
                     !.issued = Append(@, [day |-> read.day, source |-> Sources[read.s + 1],
                                           query |-> ImmediateQuery(plan.topic, read.day)])]
            ELSE IF read.day + 1 <= ImmediateDays(plan.duration)
            THEN [read EXCEPT !.day = @ + 1, !.s = 1, !.row = <<>>,
                     !.groupedResources = grouped,
                     !.issued = Append(@, [day |-> read.day + 1, source |-> Sources[1],
                                           query |-> ImmediateQuery(plan.topic,
                                                                    read.day + 1)])]
            ELSE [read EXCEPT !.pc = "done", !.day = 0, !.s = 0, !.row = <<>>,
                     !.groupedResources = grouped,
                     !.response = [sent |-> TRUE, status |-> 200, body |-> grouped]]]
       /\ UNCHANGED <<call, calls, synth, fallbackCalls, searchHistory, learningPlans, resources, passes, posts, writes, world>>

\* The lookups of all passes that have ended.
LookupsEnded ==
    LET F[i \in 0..Len(passes)] == IF i = 0 THEN 0 ELSE F[i - 1] + passes[i].resolved
    IN F[Len(passes)]

\* The possible answers of all model calls.
AllGeminiResults == UNION {GeminiResults(t, n) : t \in Topics, n \in Durations}

Init == call = NoCall /\ InitPipeline /\ world \in Worlds

\* The pipeline with its read path: every handler from one await of a model
\* call or a lookup to the next, every pass from one lookup to the next.
Next ==
    \/ \E t \in Topics, n \in Durations : PostGenerate(t, n)
    \/ \E p \in DOMAIN posts, g \in AllGeminiResults : PostPlanGenerated(p, g, MaxDaysRead)
    \/ \E i \in DOMAIN passes, ev \in LookupEvents :
        (Len(passes) > 1 => LookupsEnded < MaxLookups) /\ PassLookupSettles(i, ev)
    \/ \E planId \in 1..(MaxPlans + 1) : GetResources(planId)
    \/ \E r \in DOMAIN reads, ev \in LookupEvents : ImmediateLookupSettles(r, ev)
    \/ ClearHistory

Spec == Init /\ [][Next]_vars

InitPass == call = NoCall /\ InitPipeline /\ world = OpenWorld

\* One plan creation and the pass it triggers, lookup by lookup.
NextPass ==
    \/ \E t \in Topics, n \in Durations : PostGenerate(t, n)
    \/ \E p \in DOMAIN posts, g \in AllGeminiResults : PostPlanGenerated(p, g, MaxDays)
    \/ \E i \in DOMAIN passes, ev \in LookupEvents : PassLookupSettles(i, ev)
    \/ ClearHistory

SpecPass == InitPass /\ [][NextPass]_vars

----------------------------------------------------------------------------
(* Properties of the orchestrator pass (SpecPass). *)

PassEnded(pass) == pass.pc \in {"done", "aborted"}

IsSynthesized(item) == item.metadata.present /\ item.metadata.type = "fallback_search"

\* C1: no persisted record contains an item built by generateFallbackResults
\* (metadata type 'fallback_search').
C1_NoFallbackPersisted ==
    \A k \in DOMAIN resources :
        \A j \in DOMAIN resources[k].data : ~IsSynthesized(resources[k].data[j])

\* C2: a (day, source) unit all of whose lookups timed out or errored makes no
\* addResource call.
C2_AllFailedUnitPersistsNothing ==
    \A k \in DOMAIN writes : ~writes[k].failedOnly

\* C3: every persisted item list has 1 to 5 items, each with a url that is
\* present and not blank, and no two items with the same url.
C3_PersistedListsAreBoundedLinkedUnique ==
    \A k \in DOMAIN resources :
        LET data == resources[k].data IN
        /\ Len(data) \in 1..5
        /\ \A j \in DOMAIN data :
            /\ data[j].url # Undefined
            /\ data[j].url # <<>>
            /\ \E t \in DOMAIN data[j].url : data[j].url[t] \notin Whitespace
        /\ \A a, b \in DOMAIN data : data[a].url = data[b].url => a = b

\* A unit that got a real document back stored fewer items than its lookups
\* returned: the filter, the dedupe or the cut to five removed some.
C3_Witness ==
    \E k \in DOMAIN resources :
        /\ ~writes[k].failedOnly
        /\ writes[k].returned > Len(resources[k].data)
        /\ \E j \in DOMAIN resources[k].data : ~IsSynthesized(resources[k].data[j])

\* C6: a pass over a plan with D days attempts exactly D x 4 units, whatever
\* raises inside a unit.
C6_PassAttemptsEveryUnit ==
    \A i \in DOMAIN passes :
        PassEnded(passes[i]) =>
            passes[i].unitsAttempted
                = 4 * Len(learningPlans[passes[i].planId].plan.days)

\* C7: a pass that has ended has logged its completion exactly once, and no
\* pass logs it more than once.
C7_CompletionLoggedOnce ==
    \A i \in DOMAIN passes :
        /\ passes[i].finished <= 1
        /\ PassEnded(passes[i]) => passes[i].finished = 1

\* C8: when the response to a plan creation is sent, no lookup of the pass it
\* triggered has been started.
C8_ResponseBeforeAnyLookup ==
    \A k \in DOMAIN posts : posts[k].lookupsStarted = 0

----------------------------------------------------------------------------
(* Properties of the read path (Spec). *)

\* C9: while every lookup so far has failed, each response of the read
\* endpoint for an existing plan holds at least one item of each source for
\* every day 1..min(duration, 5).
C9_UnavailabilityStillGivesEveryLink ==
    realUsed = 0 =>
        \A r \in DOMAIN reads :
            (reads[r].response.sent /\ reads[r].planExists) =>
                LET body == reads[r].response.body
                    duration == learningPlans[reads[r].planId].duration
                IN \A d \in 1..(IF duration < 5 THEN duration ELSE 5) :
                    /\ d \in DOMAIN body
                    /\ \A src \in SourceSet :
                        /\ src \in DOMAIN body[d]
                        /\ Len(body[d][src]) >= 1

\* The calls the immediate path is to issue, in order.
ExpectedImmediateCalls(topic, duration) ==
    [k \in 1..(4 * (IF duration < 5 THEN duration ELSE 5)) |->
        LET n == ((k - 1) \div 4) + 1 IN
        [day |-> n, source |-> Sources[((k - 1) % 4) + 1],
         query |-> topic \o <<" ", "day", " ", ToString(n), " ", "fundamentals">>]]

\* C10: the immediate path issues, for days 1..min(duration, 5) and nothing
\* later, one call per source with the query '{topic} day {n} fundamentals',
\* and its result has exactly those days and the four sources under each.
C10_ImmediatePathCoversFirstFiveDays ==
    \A r \in DOMAIN reads :
        reads[r].immediate =>
            LET plan == learningPlans[reads[r].planId]
                expected == ExpectedImmediateCalls(plan.topic, plan.duration)
                issued == reads[r].issued
                body == reads[r].response.body
            IN /\ Len(issued) <= Len(expected)
               /\ \A k \in DOMAIN issued : issued[k] = expected[k]
               /\ reads[r].response.sent =>
                    /\ issued = expected
                    /\ DOMAIN body = 1..(IF plan.duration < 5 THEN plan.duration ELSE 5)
                    /\ \A d \in DOMAIN body : DOMAIN body[d] = SourceSet

\* The immediate path of a 30-day plan has returned after 20 calls.
C10_Witness ==
    \E r \in DOMAIN reads :
        /\ reads[r].immediate /\ reads[r].response.sent
        /\ learningPlans[reads[r].planId].duration = 30
        /\ Len(reads[r].issued) = 20

\* What a Source Fetcher call for (source, query) can return in this world.
FetcherResults(source, query) ==
    {Delivered(source, query, ev) : ev \in EventsOf(source, query)}

\* C11: a step of the immediate path leaves the stored records unchanged, and
\* every list of its result is a Source Fetcher result for that day's query
\* and that source, as returned.
C11_ImmediatePathStoresNothingReturnsAsIs ==
    /\ [][(reads' # reads /\ Len(reads') = Len(reads)) => resources' = resources]_vars
    /\ [](\A r \in DOMAIN reads :
            reads[r].immediate =>
                LET topic == learningPlans[reads[r].planId].topic
                    got == IF reads[r].response.sent THEN reads[r].response.body
                           ELSE reads[r].groupedResources
                IN \A d \in DOMAIN got : \A src \in DOMAIN got[d] :
                    got[d][src] \in FetcherResults(src,
                        topic \o <<" ", "day", " ", ToString(d), " ", "fundamentals">>))

\* An immediate response that carries a real list of more than five items
\* beside a synthesized fallback item.
C11_Witness ==
    \E r \in DOMAIN reads :
        /\ reads[r].immediate /\ reads[r].response.sent
        /\ \E d \in DOMAIN reads[r].response.body :
            LET day == reads[r].response.body[d] IN
            /\ \E src \in DOMAIN day : Len(day[src]) > 5
            /\ \E src \in DOMAIN day : Len(day[src]) = 1 /\ IsSynthesized(day[src][1])

\* C12: a read takes the immediate path and starts a new pass exactly when its
\* plan exists and no record of the plan is stored at that moment; otherwise
\* it starts no lookup and no pass, and answers with the stored records of the
\* plan grouped by day and source.
C12_ImmediateIffPlanWithoutRecords ==
    /\ [][Len(reads') = Len(reads) + 1 =>
            LET read == reads'[Len(reads')]
                mine == {k \in DOMAIN resources : resources[k].planId = read.planId}
                body == read.response.body
            IN /\ read.immediate <=> (read.planId \in DOMAIN learningPlans /\ mine = {})
               /\ read.immediate =>
                    /\ Len(passes') = Len(passes) + 1
                    /\ passes'[Len(passes')].planId = read.planId
                    /\ Len(read.issued) = 1
                    /\ ~read.response.sent
               /\ ~read.immediate =>
                    /\ passes' = passes
                    /\ read.issued = <<>>
                    /\ read.response.sent
                    /\ DOMAIN body = {resources[k].day : k \in mine}
                    /\ \A d \in DOMAIN body :
                        /\ DOMAIN body[d]
                            = {resources[k].source : k \in {j \in mine : resources[j].day = d}}
                        /\ \A src \in DOMAIN body[d] :
                            \E k \in mine : /\ resources[k].day = d
                                            /\ resources[k].source = src
                                            /\ resources[k].data = body[d][src]]_vars
    /\ [](\A r \in DOMAIN reads : ~reads[r].immediate => reads[r].issued = <<>>)

\* A read that found records of its plan and answered with them.
C12_Witness ==
    \E r \in DOMAIN reads :
        /\ ~reads[r].immediate /\ reads[r].planExists /\ reads[r].response.sent
        /\ DOMAIN reads[r].response.body # {}

----------------------------------------------------------------------------
(* The Query Synthesizer and the Source Query Optimizer alone (SpecQueries). *)

SynthTopics == {<<"rust", " ", "ownership">>, <<"rust">>}

SynthTitles ==
    {Join(<<"Intro", "to", "ownership">>), <<>>, <<"documentation">>,
     Join(<<"move", "semantics">>)}

SynthPhases == {"beginner", "intermediate", "advanced"}

SynthMicroTopics ==
    {<<>>,
     <<Join(<<"move", "semantics">>), <<"borrowing">>>>,
     <<Join(<<"move", "semantics">>), Join(<<"move", "semantics">>)>>,
     <<<<>>>>,
     <<<<>>, <<"borrowing">>>>}

\* Source identifiers handed to the optimizer: the four known ones and another.
SynthSources == SourceSet \cup {"bing"}

\* Base lists handed to the optimizer directly.
BaseLists(topic) ==
    {<<>>,
     <<topic \o <<" ", "basics">>>>,
     <<topic \o <<" ", "basics">>, topic \o <<" ", "basics">>>>,
     <<topic \o <<" ", "overview">>, topic \o <<" ", "basics">>>>,
     <<topic \o <<" ", "explained">>, topic \o <<" ", "help">>,
       topic \o <<" ", "best", " ", "practices">>>>,
     [k \in 1..9 |-> topic \o <<" ", "part", " ", ToString(k)>>]}

\* generateComprehensiveSearchQueries(planStructure, day) is called.
Synthesize(topic, title, phase, microTopics) ==
    LET result == generateComprehensiveSearchQueries(
                      [topic |-> topic],
                      [title |-> title, phase |-> phase,
                       microTopics |-> [kind |-> "array", items |-> microTopics]])
    IN /\ synth.stage = "idle"
       /\ synth' = [NoSynth EXCEPT !.stage = "synthesized", !.topic = topic,
                                   !.title = title, !.phase = phase,
                                   !.microTopics = microTopics,
                                   !.base = result.queries, !.threw = result.threw]
       /\ UNCHANGED <<call, calls, searchHistory, learningPlans, resources, passes, reads, posts,
                      writes, realUsed, world, fallbackCalls>>

\* optimizeQueriesForSource(source, searchQueries, planStructure.topic) is
\* called with the synthesized list.
Optimize(source) ==
    /\ synth.stage = "synthesized" /\ ~synth.threw
    /\ synth' = [synth EXCEPT !.stage = "optimized", !.source = source,
                              !.optimized = optimizeQueriesForSource(source, synth.base,
                                                                     synth.topic)]
    /\ UNCHANGED <<call, calls, searchHistory, learningPlans, resources, passes, reads, posts,
                   writes, realUsed, world, fallbackCalls>>

\* optimizeQueriesForSource is called with a list of its own.
OptimizeList(source, baseQueries, topic) ==
    /\ synth.stage = "idle"
    /\ synth' = [NoSynth EXCEPT !.stage = "optimizedList", !.topic = topic,
                                !.base = baseQueries, !.source = source,
                                !.optimized = optimizeQueriesForSource(source, baseQueries,
                                                                       topic)]
    /\ UNCHANGED <<call, calls, searchHistory, learningPlans, resources, passes, reads, posts,
                   writes, realUsed, world, fallbackCalls>>

InitQueries == call = NoCall /\ InitPipeline /\ world = OpenWorld

NextQueries ==
    \/ \E t \in SynthTopics, title \in SynthTitles, ph \in SynthPhases,
          ms \in SynthMicroTopics : Synthesize(t, title, ph, ms)
    \/ \E src \in SynthSources : Optimize(src)
    \/ \E src \in SynthSources, t \in SynthTopics :
        \E base \in BaseLists(t) : OptimizeList(src, base, t)

SpecQueries == InitQueries /\ [][NextQueries]_vars

\* The first n distinct values of raw, in the order of their first occurrence.
FirstDistinct(raw, n) ==
    LET first == {i \in DOMAIN raw : \A j \in 1..(i - 1) : raw[j] # raw[i]}
        count == IF Cardinality(first) < n THEN Cardinality(first) ELSE n
    IN [k \in 1..count |->
            raw[CHOOSE i \in first : Cardinality({j \in first : j < i}) = k - 1]]

NoDuplicates(seq) == \A i, j \in DOMAIN seq : seq[i] = seq[j] => i = j

\* The queries of section 4.1 before the dedupe: 3 primary, 3 of the phase,
\* 4 per micro-topic, 3 documentation queries.
ExpectedRawQueries(topic, title, phase, microTopics) ==
    LET tt == topic \o <<" ">> \o title
        ofPhase ==
            IF phase = "beginner"
            THEN <<tt \o <<" ", "fundamentals">>, tt \o <<" ", "basics">>,
                   <<"learn", " ">> \o tt>>
            ELSE IF phase = "intermediate"
            THEN <<tt \o <<" ", "practical">>, tt \o <<" ", "implementation">>,
                   tt \o <<" ", "examples">>>>
            ELSE <<tt \o <<" ", "advanced">>, tt \o <<" ", "optimization">>,
                   tt \o <<" ", "best", " ", "practices">>>>
        ofMicroTopics ==
            [k \in 1..(4 * Len(microTopics)) |->
                LET m == microTopics[((k - 1) \div 4) + 1] IN
                CASE (k - 1) % 4 = 0 -> topic \o <<" ">> \o m
                  [] (k - 1) % 4 = 1 -> m \o <<" ", "explained">>
                  [] (k - 1) % 4 = 2 -> m \o <<" ", "tutorial">>
                  [] OTHER -> topic \o <<" ">> \o m \o <<" ", phase>>]
    IN <<tt, tt \o <<" ", "tutorial">>, tt \o <<" ", "guide">>>>
       \o ofPhase \o ofMicroTopics
       \o <<topic \o <<" ", "documentation">>, topic \o <<" ", "reference">>,
            topic \o <<" ", "technical", " ", "guide">>>>

\* C13: the synthesized list has at most 12 queries, no duplicates, and is the
\* first 12 distinct queries, in first-seen order, of the sequence of 4.1.
C13_SynthesizedIsFirstTwelveDistinct ==
    synth.stage \in {"synthesized", "optimized"} =>
        /\ ~synth.threw
        /\ Len(synth.base) <= 12
        /\ NoDuplicates(synth.base)
        /\ synth.base = FirstDistinct(ExpectedRawQueries(synth.topic, synth.title,
                                                          synth.phase, synth.microTopics),
                                      12)

\* A day whose raw sequence repeats a query and has more than 12 distinct ones.
C13_Witness ==
    /\ synth.stage = "synthesized"
    /\ Len(synth.base) = 12
    /\ ~NoDuplicates(ExpectedRawQueries(synth.topic, synth.title, synth.phase,
                                        synth.microTopics))

\* The four fixed additions of each source of section 4.2; none for any other
\* source identifier.
ExpectedAdditions(source, topic) ==
    IF source = "youtube"
    THEN <<topic \o <<" ", "tutorial", " ", "step", " ", "by", " ", "step">>,
           <<"how", " ", "to", " ", "learn", " ">> \o topic,
           topic \o <<" ", "course">>, topic \o <<" ", "explained">>>>
    ELSE IF source = "medium"
    THEN <<topic \o <<" ", "deep", " ", "dive">>,
           topic \o <<" ", "comprehensive", " ", "guide">>,
           <<"mastering", " ">> \o topic, topic \o <<" ", "best", " ", "practices">>>>
    ELSE IF source = "reddit"
    THEN <<<<"learning", " ">> \o topic, topic \o <<" ", "discussion">>,
           topic \o <<" ", "help">>, topic \o <<" ", "resources">>>>
    ELSE IF source = "wikipedia"
    THEN <<topic \o <<" ", "overview">>, topic \o <<" ", "introduction">>,
           topic \o <<" ", "theory">>, topic \o <<" ", "principles">>>>
    ELSE <<>>

\* C14: the optimized list has at most 8 queries and no duplicates, and is the
\* base list in its order followed by the additions of the source (none for
\* an unknown source), deduplicated and cut to 8.
C14_OptimizedIsBaseThenAdditions ==
    synth.stage \in {"optimized", "optimizedList"} =>
        /\ Len(synth.optimized) <= 8
        /\ NoDuplicates(synth.optimized)
        /\ synth.optimized
            = FirstDistinct(synth.base \o ExpectedAdditions(synth.source, synth.topic), 8)
        /\ synth.source \notin SourceSet
            => synth.optimized = FirstDistinct(synth.base, 8)

\* A base list that already holds one of the additions of the source: the
\* other three are appended.
C14_Witness ==
    /\ synth.stage = "optimizedList"
    /\ synth.source \in SourceSet
    /\ NoDuplicates(synth.base)
    /\ Len(synth.optimized) = Len(synth.base) + 3

\* C15: for the example day of 'rust ownership' (title 'Intro to ownership',
\* phase beginner, micro-topics 'move semantics' and 'borrowing') the
\* wikipedia list made from the synthesized list holds 'rust ownership overview'.
C15_WikipediaListHoldsOverview ==
    (/\ synth.stage = "optimized"
     /\ synth.source = "wikipedia"
     /\ synth.topic = <<"rust", " ", "ownership">>
     /\ synth.title = <<"Intro", " ", "to", " ", "ownership">>
     /\ synth.phase = "beginner"
     /\ synth.microTopics = <<<<"move", " ", "semantics">>, <<"borrowing">>>>)
    => \E k \in DOMAIN synth.optimized :
            synth.optimized[k] = <<"rust", " ", "ownership", " ", "overview">>

----------------------------------------------------------------------------
(* The Fallback Synthesizer alone (SpecFallback). *)

FallbackQueries == {<<>>, <<"rust">>, <<"rust", " ", "ownership">>, <<LoneSurrogate>>}

\* generateFallbackResults(source, query) is called; what it returns, or that
\* it threw, is kept.
CallFallback(source, query) ==
    /\ Len(fallbackCalls) < MaxFallbackCalls
    /\ fallbackCalls' = Append(fallbackCalls,
            IF generateFallbackResultsThrows(source, query)
            THEN [source |-> source, query |-> query, threw |-> TRUE, items |-> <<>>]
            ELSE [source |-> source, query |-> query, threw |-> FALSE,
                  items |-> generateFallbackResults(source, query)])
    /\ UNCHANGED <<call, calls, searchHistory, learningPlans, resources, passes, reads, posts,
                   writes, realUsed, world, synth>>

InitFallback == call = NoCall /\ InitPipeline /\ world = OpenWorld

NextFallback == \E src \in SourceSet, q \in FallbackQueries : CallFallback(src, q)

SpecFallback == InitFallback /\ [][NextFallback]_vars

\* C16: for every source and every query, a call returns exactly one item,
\* tagged with its source and with metadata type 'fallback_search', and two
\* calls with the same source and query return the same title, url and snippet.
C16_FallbackIsOneDeterministicItem ==
    /\ \A i \in DOMAIN fallbackCalls :
        LET c == fallbackCalls[i] IN
        /\ ~c.threw
        /\ Len(c.items) = 1
        /\ c.items[1].source = c.source
        /\ c.items[1].metadata.present
        /\ c.items[1].metadata.type = "fallback_search"
    /\ \A i, j \in DOMAIN fallbackCalls :
        (fallbackCalls[i].source = fallbackCalls[j].source
            /\ fallbackCalls[i].query = fallbackCalls[j].query)
        => /\ fallbackCalls[i].items[1].title = fallbackCalls[j].items[1].title
           /\ fallbackCalls[i].items[1].url = fallbackCalls[j].items[1].url
           /\ fallbackCalls[i].items[1].snippet = fallbackCalls[j].items[1].snippet

\* C17: with an empty title or an empty micro-topic the synthesizer does not
\* raise, emits no empty query, and emits none of the queries built from the
\* empty title or the empty micro-topic.
C17_EmptyPartsAreSkipped ==
    synth.stage = "synthesized" =>
        LET raw == ExpectedRawQueries(synth.topic, synth.title, synth.phase,
                                      synth.microTopics)
            fromEmpty ==
                {i \in DOMAIN raw :
                    \/ i <= 6 /\ synth.title = <<>>
                    \/ /\ i > 6 /\ i <= 6 + 4 * Len(synth.microTopics)
                       /\ synth.microTopics[((i - 7) \div 4) + 1] = <<>>}
        IN /\ ~synth.threw
           /\ \A q \in DOMAIN synth.base : synth.base[q] # <<>>
           /\ \A i \in fromEmpty : \A q \in DOMAIN synth.base : synth.base[q] # raw[i]

----------------------------------------------------------------------------
(* Further properties of the Source Fetcher (SpecFetch). *)

\* C18: when the process exits with code 0 and parseable output before the
\* deadline, every item the call returns has an accepted title and a present,
\* non-empty url; when no item of the output passes, the call returns the
\* fallback of (source, query).
C18_RealItemsHaveTitleAndUrl ==
    (/\ call.active /\ call.settled = "resolved"
     /\ call.closed /\ call.exitOk /\ ~call.timerFiredOpen
     /\ ~JSONParse(call.output).threw
     /\ JSONParse(call.output).value.isArray)
    => LET items == JSONParse(call.output).value.items
           TitleAndUrlAccepted(r) ==
               /\ ~r.nul
               /\ r.title \notin {Undefined, <<>>, ModuleImportError, NothingToSee}
               /\ r.url \notin {Undefined, <<>>}
       IN
       IF \E i \in DOMAIN items : TitleAndUrlAccepted(items[i])
       THEN \A j \in DOMAIN call.result : TitleAndUrlAccepted(call.result[j])
       ELSE call.result = generateFallbackResults(call.source, call.query)

----------------------------------------------------------------------------
(* Further properties of the orchestrator pass (SpecPass). *)

\* C19: the list stored for a unit is made of the results of the unit's
\* lookups in order: without the items that are marked as fallback, have the
\* title 'Sorry peeps nothing to see here' or an empty or blank url, with the
\* first item of each url only, cut to five; a list is stored only if this
\* leaves an item.
C19_StoredListIsFilteredMerge ==
    \A k \in DOMAIN writes :
        LET kept(r) ==
                /\ ~(r.metadata.present
                        /\ (r.metadata.fallback \/ r.metadata.type = "fallback_search"))
                /\ r.title # <<"Sorry", " ", "peeps", " ", "nothing", " ", "to", " ",
                               "see", " ", "here">>
                /\ r.url # Undefined
                /\ \E t \in DOMAIN r.url : r.url[t] \notin Whitespace
            merged == SelectSeq(writes[k].results, kept)
            first == {i \in DOMAIN merged :
                        \A j \in 1..(i - 1) : merged[j].url # merged[i].url}
            count == IF Cardinality(first) < 5 THEN Cardinality(first) ELSE 5
        IN /\ count > 0
           /\ resources[k].data
                = [n \in 1..count |->
                    merged[CHOOSE i \in first :
                              Cardinality({j \in first : j < i}) = n - 1]]

\* C20: while a plan whose days carry distinct day numbers has had one pass
\* only, no two stored records of it have the same day and source.
C20_OneWritePerUnitAndPass ==
    \A p \in DOMAIN learningPlans :
        LET days == learningPlans[p].plan.days
            mine == {k \in DOMAIN resources : resources[k].planId = p}
        IN (/\ Cardinality({i \in DOMAIN passes : passes[i].planId = p}) = 1
            /\ \A a, b \in DOMAIN days : days[a].day = days[b].day => a = b)
           => \A k1, k2 \in mine :
                (resources[k1].day = resources[k2].day
                    /\ resources[k1].source = resources[k2].source) => k1 = k2

\* A pass over two days has ended with a record for each of its eight units.
C20_Witness ==
    \E i \in DOMAIN passes :
        /\ passes[i].pc = "done"
        /\ Cardinality({<<resources[k].day, resources[k].source>> :
                            k \in {j \in DOMAIN resources :
                                        resources[j].planId = passes[i].planId}}) = 8

----------------------------------------------------------------------------
(* Concurrent passes of one plan (Spec). *)

\* C21: a read that finds no record of its plan while the creation-triggered
\* pass is in flight starts a second pass of the plan, and every write of either
\* pass adds a record of its own: the records stored for a (plan, day, source)
\* are as many as the writes the passes made for it, so the two passes leave
\* two records of the same tuple.
C21_RacingPassesEachAddTheirRecord ==
    /\ \A r \in DOMAIN reads :
        reads[r].immediate =>
            /\ reads[r].pass \in DOMAIN passes
            /\ passes[reads[r].pass].planId = reads[r].planId
            /\ \A k \in DOMAIN posts : posts[k].pass # reads[r].pass
    /\ \A p \in DOMAIN learningPlans, src \in SourceSet :
        \A d \in {writes[k].day : k \in DOMAIN writes}
                    \cup {resources[k].day : k \in DOMAIN resources} :
            Cardinality({k \in DOMAIN resources :
                            /\ resources[k].planId = p
                            /\ resources[k].day = d
                            /\ resources[k].source = src})
                = Cardinality({k \in DOMAIN writes :
                            /\ writes[k].planId = p
                            /\ writes[k].day = d
                            /\ writes[k].source = src})

\* The creation-triggered pass and the pass started by a read of the same plan
\* have both written the record of one (day, source): the store holds two
\* records of that tuple.  The read found no record, so the first pass wrote
\* after the read: it was in flight then.
C21_Witness ==
    \E r \in DOMAIN reads, k \in DOMAIN posts :
        /\ reads[r].immediate /\ reads[r].planId = posts[k].planId
        /\ \E a, b \in DOMAIN resources :
            /\ a # b
            /\ resources[a].planId = reads[r].planId
            /\ resources[b].planId = reads[r].planId
            /\ resources[a].day = resources[b].day
            /\ resources[a].source = resources[b].source
            /\ writes[a].pass = posts[k].pass
            /\ writes[b].pass = reads[r].pass

----------------------------------------------------------------------------
(* The resource store and the read endpoint alone (SpecStore): any sequence  *)
(* of addResource calls, and a read of the store.                            *)

StoredPlanIds == 1..2

StoredDays == {1, 2}

StoredSources == {"wikipedia", "youtube"}

StoredLists == {<<Good("a")>>, <<Good("b"), Good("c")>>}

\* await storage.addResource({planId, day, source, data})
StoreResource(planId, day, source, data) ==
    /\ Len(resources) < MaxStored
    /\ resources' = addResource(resources, planId, day, source, data)
    /\ UNCHANGED <<call, calls, searchHistory, learningPlans, passes, reads, posts, writes,
                   realUsed, world, synth, fallbackCalls>>

InitStore == call = NoCall /\ InitPipeline /\ world = OpenWorld

NextStore ==
    \/ \E p \in StoredPlanIds, d \in StoredDays, src \in StoredSources, data \in StoredLists :
        StoreResource(p, d, src, data)
    \/ \E planId \in StoredPlanIds : GetResources(planId)

SpecStore == InitStore /\ [][NextStore]_vars

\* C22: a read that answers from the store returns, for each day and source of
\* its plan, the whole item list of the record of that (plan, day, source) that
\* was written last, whatever the number of such records.
C22_ReadReturnsLatestRecordOfTuple ==
    [][Len(reads') = Len(reads) + 1 =>
        LET read == reads'[Len(reads')]
            body == read.response.body
        IN ~read.immediate =>
            \A d \in DOMAIN body : \A src \in DOMAIN body[d] :
                LET same == {k \in DOMAIN resources :
                                /\ resources[k].planId = read.planId
                                /\ resources[k].day = d
                                /\ resources[k].source = src}
                    last == CHOOSE k \in same : \A j \in same : j <= k
                IN same # {} /\ body[d][src] = resources[last].data]_vars

\* The store holds exactly two records of one (plan, day, source), with
\* different lists, and a read of the plan returned the list of the later one:
\* both were stored when the read ran.
C22_Witness ==
    \E r \in DOMAIN reads, a, b \in DOMAIN resources :
        /\ a < b
        /\ resources[a].planId = reads[r].planId /\ resources[b].planId = reads[r].planId
        /\ resources[a].day = resources[b].day
        /\ resources[a].source = resources[b].source
        /\ resources[a].data # resources[b].data
        /\ \A k \in DOMAIN resources :
            (/\ resources[k].planId = resources[a].planId
             /\ resources[k].day = resources[a].day
             /\ resources[k].source = resources[a].source) => k \in {a, b}
        /\ reads[r].response.sent
        /\ resources[a].day \in DOMAIN reads[r].response.body
        /\ resources[a].source \in DOMAIN reads[r].response.body[resources[a].day]
        /\ reads[r].response.body[resources[a].day][resources[a].source] = resources[b].data

----------------------------------------------------------------------------
(* The order of a pass's lookups (SpecPass). *)

\* C23: a pass has one lookup in flight while it waits and none otherwise, so
\* a lookup is started only once the one before it has resolved; the first
\* lookup is that of day 1, wikipedia, query 1, and each next one is that of
\* the next query of the optimized list, or past its end of the first query of
\* the next source, or past medium of the first query of wikipedia of the next
\* day.
C23_OneLookupInFlightInLoopOrder ==
    /\ [](\A i \in DOMAIN passes :
            passes[i].spawned - passes[i].resolved
                = (IF passes[i].pc = "await" THEN 1 ELSE 0))
    /\ [][\A i \in DOMAIN passes' :
            LET new == passes'[i]
                planStructure == learningPlans'[new.planId].plan
            IN (new.pc = "await" /\ (i \notin DOMAIN passes \/ passes[i] # new)) =>
                /\ new.sourceQueries
                    = optimizeQueriesForSource(
                        Sources[new.s],
                        generateComprehensiveSearchQueries(
                            planStructure, planStructure.days[new.d]).queries,
                        planStructure.topic)
                /\ new.q \in DOMAIN new.sourceQueries
                /\ IF i \notin DOMAIN passes
                   THEN new.d = 1 /\ new.s = 1 /\ new.q = 1 /\ new.spawned = 1
                   ELSE LET old == passes[i] IN
                        /\ old.pc = "await"
                        /\ new.spawned = old.spawned + 1
                        /\ new.resolved = old.resolved + 1
                        /\ \/ new.d = old.d /\ new.s = old.s /\ new.q = old.q + 1
                           \/ /\ new.d = old.d /\ new.s = old.s + 1 /\ new.q = 1
                              /\ old.q = Len(old.sourceQueries)
                           \/ /\ new.d = old.d + 1 /\ new.s = 1 /\ new.q = 1
                              /\ old.s = Len(Sources) /\ old.q = Len(old.sourceQueries)]_vars

\* A pass waits for the last lookup of its second day: the last query of
\* medium, with every earlier lookup resolved.
C23_Witness ==
    \E i \in DOMAIN passes :
        /\ passes[i].pc = "await"
        /\ passes[i].d = 2 /\ passes[i].s = Len(Sources)
        /\ passes[i].q = Len(passes[i].sourceQueries)
        /\ passes[i].resolved = passes[i].spawned - 1
        /\ passes[i].resolved > 8 * Len(Sources)

----------------------------------------------------------------------------
(* The store under the whole pipeline (Spec). *)

\* C24: every step of the pipeline leaves each stored record as it was and
\* removes none; each storage.addResource call adds exactly one record, after
\* the existing ones and under an id no other record has.
C24_RecordsAreOnlyCreated ==
    /\ [][/\ Len(resources') >= Len(resources)
          /\ \A k \in DOMAIN resources : resources'[k] = resources[k]
          /\ Len(resources') - Len(resources) = Len(writes') - Len(writes)]_vars
    /\ [](\A a, b \in DOMAIN resources : resources[a].id = resources[b].id => a = b)

\* The pass of the creation and the pass of a read have each stored a record
\* of the plan, and the read has been answered.
C24_Witness ==
    /\ \E a, b \in DOMAIN writes : writes[a].pass # writes[b].pass
    /\ Len(resources) >= 2
    /\ \E r \in DOMAIN reads : reads[r].immediate /\ reads[r].response.sent

----------------------------------------------------------------------------
(* Termination (SpecLive): the pipeline when no external process ever exits  *)
(* or prints, so that the deadline timer is the only event of every lookup.  *)
(* A timer that is armed fires: the deadline of a lookup in flight is weakly *)
(* fair.  Requests and the answers of the model calls are under no fairness. *)

InitLive == call = NoCall /\ InitPipeline /\ world = [open |-> FALSE, content |-> {}]

\* The durations asked for while termination is observed.
LiveDurations == {2}

\* The deadline of the lookup pass i waits for.
PassLookupTimesOut(i) ==
    /\ i \in DOMAIN passes
    /\ PassLookupSettles(i, Timeout)

\* The deadline of the lookup the immediate path of read r waits for.
ImmediateLookupTimesOut(r) ==
    /\ r \in DOMAIN reads
    /\ ImmediateLookupSettles(r, Timeout)

NextLive ==
    \/ \E t \in Topics, n \in LiveDurations : PostGenerate(t, n)
    \/ \E p \in DOMAIN posts, g \in AllGeminiResults : PostPlanGenerated(p, g, MaxDaysRead)
    \/ \E i \in DOMAIN passes : PassLookupTimesOut(i)
    \/ \E planId \in 1..(MaxPlans + 1) : GetResources(planId)
    \/ \E r \in DOMAIN reads : ImmediateLookupTimesOut(r)

\* The timer of the lookup pass i waits for is armed and resolves the call: the
\* condition under which PassLookupTimesOut(i) can happen (it always changes
\* the pass).
TimerArmed(i) ==
    /\ i \in DOMAIN passes
    /\ passes[i].pc = "await"
    /\ Settles(Sources[passes[i].s], passes[i].sourceQueries[passes[i].q], Timeout)

\* The same for the lookup the immediate path of read r waits for.
ImmediateTimerArmed(r) ==
    /\ r \in DOMAIN reads
    /\ reads[r].pc = "await"
    /\ Settles(Sources[reads[r].s],
               ImmediateQuery(learningPlans[reads[r].planId].topic, reads[r].day),
               Timeout)

\* Weak fairness of the deadlines, written out: WF_vars(A) is
\* []<>~ENABLED <<A>>_vars \/ []<><<A>>_vars, and TimerArmed(i) and
\* ImmediateTimerArmed(r) are the enabling conditions of the two steps.
TimersFire ==
    /\ \A i \in 1..(MaxPlans + MaxReads) :
        []<>(~TimerArmed(i)) \/ []<><<PassLookupTimesOut(i)>>_vars
    /\ \A r \in 1..MaxReads :
        []<>(~ImmediateTimerArmed(r)) \/ []<><<ImmediateLookupTimesOut(r)>>_vars

SpecLive == InitLive /\ [][NextLive]_vars /\ TimersFire

----------------------------------------------------------------------------
(* Deadlines of the calls of the two paths (Spec). *)

\* C26: every Source Fetcher call of the immediate path is armed with a
\* deadline below 15 seconds, and below the deadline of the call a pass waits
\* for.
C26_ImmediateCallsHaveShorterDeadline ==
    \A r \in DOMAIN reads : \A k \in DOMAIN reads[r].issued :
        LET c == fetchResourcesFromSource(reads[r].issued[k].source,
                                          reads[r].issued[k].query)
        IN /\ c.deadline < 15000
           /\ \A i \in DOMAIN passes :
                passes[i].pc = "await" =>
                    c.deadline < fetchResourcesFromSource(
                                    Sources[passes[i].s],
                                    passes[i].sourceQueries[passes[i].q]).deadline

----------------------------------------------------------------------------
(* SpecCalls: every order of the events of two Source Fetcher calls of one   *)
(* server process.  The calls come from the loops of the passes and of the   *)
(* immediate path: the second starts while the first is in flight (two       *)
(* passes, or a pass beside a read) or after the first has returned, while   *)
(* the timer of the first, which nothing cancels, is still to fire.          *)

CallQueries == {<<"rust">>}

CallChunks == {"docMixed", "garbage"}

\* python, output, errorOutput and resolve are bindings of one invocation of
\* the Promise executor (routes.ts 321-337): the callbacks registered by call
\* k read and write the bindings of call k.
OnStdout(cs, k, data) == [cs EXCEPT ![k] = StdoutHandler(cs[k], data)]

OnClose(cs, k, code) == [cs EXCEPT ![k] = CloseHandler(cs[k], code)]

OnError(cs, k) == [cs EXCEPT ![k] = ErrorHandler(cs[k])]

\* Variant of OnTimer: python is a variable of the module, so the timer of a
\* call kills the process that was spawned last.
OnTimer_SharedProcess(cs, k) ==
    LET killed == [cs EXCEPT ![Len(cs)].killCalled = TRUE] IN
    [killed EXCEPT ![k] = ResolveFallback(killed[k])]

OnTimer(cs, k) == [cs EXCEPT ![k] = TimeoutHandler(cs[k])]

\* Call k has returned and another call is in flight.
LateBeside(cs, k) ==
    /\ cs[k].settled = "resolved"
    /\ \E j \in DOMAIN cs \ {k} : cs[j].settled = "pending"

otherVars == <<call, searchHistory, learningPlans, resources, passes, reads, posts, writes,
              realUsed, world, synth, fallbackCalls>>

CallStart(source, query) ==
    /\ Len(calls) < MaxCalls
    /\ AllRun(calls)
    /\ \E c \in CallBeginnings(source, query) : calls' = Append(calls, c)
    /\ UNCHANGED otherVars

CallStdout(k, data) ==
    /\ k \in DOMAIN calls
    /\ AllRun(calls)
    /\ ~calls[k].closed /\ ~calls[k].errored
    /\ Len(calls[k].output) < MaxCallChunks
    /\ calls' = OnStdout(calls, k, data)
    /\ UNCHANGED otherVars

CallClose(k, code) ==
    /\ k \in DOMAIN calls
    /\ AllRun(calls)
    /\ ~calls[k].closed
    /\ calls[k].errored <=> code = SpawnFailureCode
    /\ calls' = [OnClose(calls, k, code) EXCEPT
                    ![k].closed = TRUE, ![k].exitOk = (code = 0),
                    ![k].lateBeside = calls[k].lateBeside \/ LateBeside(calls, k)]
    /\ UNCHANGED otherVars

CallError(k) ==
    /\ k \in DOMAIN calls
    /\ AllRun(calls)
    /\ ~calls[k].closed /\ ~calls[k].errored /\ ~calls[k].timerFired
    /\ calls[k].output = <<>>
    /\ calls' = [OnError(calls, k) EXCEPT ![k].errored = TRUE]
    /\ UNCHANGED otherVars

CallTimerFire(k) ==
    /\ k \in DOMAIN calls
    /\ AllRun(calls)
    /\ ~calls[k].timerFired
    /\ calls' = [OnTimer(calls, k) EXCEPT
                    ![k].timerFired = TRUE, ![k].timerFiredOpen = ~calls[k].closed,
                    ![k].lateBeside = calls[k].lateBeside \/ LateBeside(calls, k)]
    /\ UNCHANGED otherVars

InitCalls == call = NoCall /\ InitPipeline /\ world = OpenWorld

NextCalls ==
    \/ \E s \in SourceSet, q \in CallQueries : CallStart(s, q)
    \/ \E k \in 1..MaxCalls, d \in CallChunks : CallStdout(k, d)
    \/ \E k \in 1..MaxCalls, code \in ExitCodes \cup {SpawnFailureCode} : CallClose(k, code)
    \/ \E k \in 1..MaxCalls : CallError(k)
    \/ \E k \in 1..MaxCalls : CallTimerFire(k)

SpecCalls == InitCalls /\ [][NextCalls]_vars

\* The step handles an event of call k: its process printed, closed or failed
\* to start, or its timer fired.
EventOf(k) ==
    \/ calls'[k].output # calls[k].output
    \/ calls'[k].closed # calls[k].closed
    \/ calls'[k].errored # calls[k].errored
    \/ calls'[k].timerFired # calls[k].timerFired

----------------------------------------------------------------------------
(* The synthesized list against the cut of the optimizer (SpecQueries). *)

\* C28: for a day of phase beginner, intermediate or advanced the synthesized
\* list has at least 8 queries, all distinct, and the list of every one of the
\* four sources is its first 8 queries: the same list for the four sources,
\* with no query that the additions of a source brought in.
C28_OptimizedIsFirstEightBaseQueries ==
    (synth.stage \in {"synthesized", "optimized"} /\ synth.phase \in SynthPhases) =>
        /\ ~synth.threw
        /\ Len(synth.base) >= 8
        /\ NoDuplicates(synth.base)
        /\ \A source \in SourceSet :
                optimizeQueriesForSource(source, synth.base, synth.topic)
                    = SubSeq(synth.base, 1, 8)
        /\ (synth.stage = "optimized" /\ synth.source \in SourceSet) =>
                /\ synth.optimized = SubSeq(synth.base, 1, 8)
                /\ \A k \in DOMAIN synth.optimized :
                        synth.optimized[k] = synth.base[k]

\* The shortest synthesized list: a day without micro-topics whose title makes
\* one primary query equal to a documentation query, 8 distinct queries of 9.
C28_Witness ==
    /\ synth.stage = "optimized"
    /\ synth.source \in SourceSet
    /\ synth.phase \in SynthPhases
    /\ synth.microTopics = <<>>
    /\ Len(synth.base) = 8
    /\ Len(synth.optimized) = 8

----------------------------------------------------------------------------
(* Reads of a plan that was never created (Spec). *)

\* C29: a GET /api/resources/:planId for an id that no stored plan has is
\* answered at once with status 200 and the empty day map; the step calls no
\* pass and issues no lookup, and leaves the plans, the resource records and
\* the search history as they were.
C29_ReadOfUnknownPlanIsEmptyAndInert ==
    [][(/\ Len(reads') = Len(reads) + 1
        /\ ~\E k \in DOMAIN learningPlans :
                learningPlans[k].id = reads'[Len(reads')].planId)
       => LET read == reads'[Len(reads')] IN
          /\ read.response = [sent |-> TRUE, status |-> 200, body |-> EmptyMap]
          /\ read.pc = "done"
          /\ ~read.immediate /\ read.issued = <<>> /\ read.pass = 0
          /\ passes' = passes
          /\ resources' = resources /\ writes' = writes
          /\ learningPlans' = learningPlans
          /\ searchHistory' = searchHistory
          /\ realUsed' = realUsed]_vars

\* An id without a plan was read while the store held records of a plan.
C29_Witness ==
    \E r \in DOMAIN reads :
        /\ ~\E k \in DOMAIN learningPlans : learningPlans[k].id = reads[r].planId
        /\ reads[r].response.sent
        /\ Len(learningPlans) > 0
        /\ Len(resources) > 0

----------------------------------------------------------------------------
(* The search history alone (SpecHistory): storage.addSearchHistory and      *)
(* storage.clearSearchHistory called in any order.                           *)

HistoryQuery(n) == <<"topic", " ", ToString(n)>>

HistoryQueries == {HistoryQuery(n) : n \in 1..MaxQueries}

\* Queries that are searched a second time.
Requeried == {HistoryQuery(1), HistoryQuery(26), HistoryQuery(50)}

QueryNumber(query) == CHOOSE n \in 1..MaxQueries : HistoryQuery(n) = query

\* The queries come in the order of their numbers; one that is repeated comes
\* again while the entries are still in that order.
InFirstOrder(history) ==
    \A i \in 1..(Len(history) - 1) :
        QueryNumber(history[i].query) < QueryNumber(history[i + 1].query)

\* The number of the next query that was not searched before.
NextNewQuery(history) ==
    LET numbers == {QueryNumber(history[i].query) : i \in DOMAIN history} IN
    IF history = <<>> THEN 1
    ELSE 1 + CHOOSE n \in numbers : \A m \in numbers : m <= n

\* storage.addSearchHistory({ query }) is called.
AddHistory(query) ==
    /\ query \in HistoryQueries
    /\ \/ query = HistoryQuery(NextNewQuery(searchHistory))
       \/ /\ query \in Requeried
          /\ InFirstOrder(searchHistory)
          /\ \E i \in DOMAIN searchHistory : searchHistory[i].query = query
    /\ searchHistory' = addSearchHistory(searchHistory, query)
    /\ UNCHANGED <<call, calls, learningPlans, resources, passes, reads, posts, writes,
                   realUsed, world, synth, fallbackCalls>>

InitHistory == call = NoCall /\ InitPipeline /\ world = OpenWorld

NextHistory ==
    \/ \E query \in {HistoryQuery(NextNewQuery(searchHistory))} \cup Requeried :
            AddHistory(query)
    \/ ClearHistory

SpecHistory == InitHistory /\ [][NextHistory]_vars

\* C30: the history never holds more than 50 entries or two entries of one
\* query; an add leaves the added query last, the entries of the other queries
\* before it in their order, and when that makes 51 the oldest is left out; a
\* query that was present keeps the length as it was.
C30_HistoryIsLastFiftyDistinct ==
    /\ [](/\ Len(searchHistory) <= 50
          /\ \A i, j \in DOMAIN searchHistory :
                searchHistory[i].query = searchHistory[j].query => i = j)
    /\ [][(searchHistory' # searchHistory /\ searchHistory' # <<>>) =>
            LET query == searchHistory'[Len(searchHistory')].query
                others == SelectSeq(searchHistory, LAMBDA item : item.query # query)
                dropped == IF Len(others) + 1 > 50 THEN Len(others) + 1 - 50 ELSE 0
            IN /\ \A k \in 1..(Len(searchHistory') - 1) :
                    searchHistory'[k] = others[k + dropped]
               /\ Len(searchHistory') = Len(others) + 1 - dropped
               /\ Len(others) < Len(searchHistory)
                    => Len(searchHistory') = Len(searchHistory)]_vars

\* 51 queries were added and the first of them a second time, after the 50th:
\* the entries of queries 1 and 51 are the newest, queries 3 to 50 are before
\* them and query 2, then the oldest, is gone.
C30_Witness ==
    /\ Len(searchHistory) = 50
    /\ searchHistory[1].query = HistoryQuery(3)
    /\ searchHistory[48].query = HistoryQuery(50)
    /\ searchHistory[49].query = HistoryQuery(1)
    /\ searchHistory[50].query = HistoryQuery(51)

====
